---- MODULE Spec2Model ----
(***************************************************************************)
(* A model of the term-box crate: a TermBox (border style, padding,        *)
(* titles, lines) is built, then consumed by into_string / write_to /      *)
(* print_to, which lay the text out in a bordered box.                      *)
(*                                                                         *)
(* A string is a sequence of characters; a character is a one-element      *)
(* token: "a" is a one-column letter, "ESC[1m" / "ESC[31m" / "ESC[0m" are  *)
(* whole ANSI escape sequences (zero columns), the border glyphs are named *)
(* "s_tl", "s_h", ... (Single) and "d_tl", "d_h", ... (Double).            *)
(***************************************************************************)
EXTENDS Integers, Sequences, FiniteSets, TLC

VARIABLES
    box,      \* the TermBox under construction: border_style, padding, titles, lines
    pc,       \* "build" while the box is owned by the caller, else the method that consumed it
    out,      \* the String returned by into_string
    sink,     \* what write_to / print_to wrote to the Write implementor
    pad_call, \* the arguments of the Padding constructor call that made box.padding
    probe,    \* a direct call of Title::left_pad_len / right_pad_len (SpecPad only)
    hist      \* the box the line methods started from and their calls (SpecLines only)

vars == <<box, pc, out, sink, pad_call, probe, hist>>

(***************************************************************************)
(* Bounds of the model.                                                    *)
(***************************************************************************)
MaxWidth == 1        \* widest plain text "a"^n given as a line
MaxLines == 2        \* most lines a box holds
MaxPadCount == 1     \* largest count given to a Padding constructor
MaxProbeWidth == 4   \* widest title given to the pad functions directly
MaxTotalLen == 9     \* longest border row given to the pad functions directly

(***************************************************************************)
(* Program constants.                                                      *)
(***************************************************************************)
SIDES == 2
MIN_LINE_LEN == 3
DEFAULT_DIST_FROM_CORNER == 1

Max(a, b) == IF a >= b THEN a ELSE b

\* str::repeat
Repeat(s, n) ==
    IF n <= 0 \/ s = <<>> THEN <<>>
    ELSE [i \in 1..(n * Len(s)) |-> s[((i - 1) % Len(s)) + 1]]

(***************************************************************************)
(* ansi_width: the visible width of a string.  Escape sequences and the    *)
(* newline take no column, the wide letter "W" takes two, all else one.    *)
(***************************************************************************)
ZeroWidthChars == {"ESC[1m", "ESC[31m", "ESC[0m", "\n"}

CharWidth(c) == IF c \in ZeroWidthChars THEN 0 ELSE IF c = "W" THEN 2 ELSE 1

ansi_width(s) ==
    Cardinality({i \in 1..Len(s) : CharWidth(s[i]) >= 1})
    + Cardinality({i \in 1..Len(s) : CharWidth(s[i]) = 2})

(***************************************************************************)
(* nu_ansi_term::Style: is_plain, and paint(..).to_string(), which writes  *)
(* the style's prefix, the text and the reset suffix; a plain style has    *)
(* neither prefix nor suffix.                                              *)
(***************************************************************************)
AnsiStyles == {"Plain", "Bold", "Red"}

is_plain(ansi) == ansi = "Plain"

AnsiPrefix(ansi) ==
    CASE ansi = "Bold" -> <<"ESC[1m">>
      [] ansi = "Red"  -> <<"ESC[31m">>
      [] OTHER         -> <<>>

AnsiSuffix(ansi) == IF is_plain(ansi) THEN <<>> ELSE <<"ESC[0m">>

\* paint writing the reset sequence after the text whatever the style
paint_always_reset(ansi, s) == AnsiPrefix(ansi) \o s \o <<"ESC[0m">>

paint(ansi, s) == AnsiPrefix(ansi) \o s \o AnsiSuffix(ansi)

(***************************************************************************)
(* line.rs: CountedString                                                  *)
(***************************************************************************)
CountedString_counted(string, width) == [str |-> string, width |-> width]

CountedString_new(string) == [str |-> string, width |-> ansi_width(string)]

CountedString_owned(string) == CountedString_counted(string, ansi_width(string))

CountedString_EMPTY == [str |-> <<>>, width |-> 0]

\* an order of CountedString by the raw length of the text
CountedString_gt_by_len(x, y) == Len(x.str) > Len(y.str)

\* Ord for CountedString: by width only
CountedString_gt(x, y) == x.width > y.width

\* cmp::max(v1, v2): v2 unless v1 is strictly greater
cmp_max(v1, v2) == IF CountedString_gt(v1, v2) THEN v1 ELSE v2

(***************************************************************************)
(* border.rs                                                               *)
(***************************************************************************)
BorderChars == {"TopLeft", "TopRight", "Side", "BotLeft", "BotRight", "Edge"}

BorderCharIndex(char) ==
    CASE char = "TopLeft"  -> 1
      [] char = "TopRight" -> 2
      [] char = "Side"     -> 3
      [] char = "BotLeft"  -> 4
      [] char = "BotRight" -> 5
      [] char = "Edge"     -> 6

SINGLE_SHAPES == <<"s_tl", "s_tr", "s_v", "s_bl", "s_br", "s_h">>
DOUBLE_SHAPES == <<"d_tl", "d_tr", "d_v", "d_bl", "d_br", "d_h">>

\* BorderShape::get_char, as a one-character string
get_char(shape, char) ==
    IF shape = "Single" THEN <<SINGLE_SHAPES[BorderCharIndex(char)]>>
                        ELSE <<DOUBLE_SHAPES[BorderCharIndex(char)]>>

BorderStyle_new_single == [shape |-> "Single", ansi |-> "Plain"]

BorderStyle_new_double == [shape |-> "Double", ansi |-> "Plain"]

BorderStyle_with_style(self, style) == [self EXCEPT !.ansi = style]

get_edge_string(self) == paint(self.ansi, get_char(self.shape, "Side"))

(***************************************************************************)
(* padding.rs                                                              *)
(***************************************************************************)
Padding_spaces(count) == [chr |-> " ", count |-> count]

\* Padding::new keeping the tab
Padding_new_keep_tab(chr, count) == [chr |-> chr, count |-> count]

Padding_new(chr, count) ==
    IF chr = "\t" THEN Padding_spaces(count * 8)
                  ELSE [chr |-> chr, count |-> count]

Padding_none == Padding_new("NUL", 0)

Padding_into_string(self) == Repeat(<<self.chr>>, self.count)

into_counted_string(self) ==
    IF self.count = 0 THEN CountedString_EMPTY
                      ELSE CountedString_counted(Padding_into_string(self), self.count)

(***************************************************************************)
(* title.rs                                                                *)
(***************************************************************************)
TitlePositions == {"Centered", "Left", "Right"}

Title(text, pos) == [text |-> CountedString_owned(text), pos |-> pos]

Title_empty == [text |-> CountedString_EMPTY, pos |-> "Left"]

\* is_empty deciding by the visible width
Title_is_empty_by_width(self) == self.text.width = 0

Title_is_empty(self) == self.text.str = <<>>

Title_width(self) == self.text.width

Some(v) == [some |-> TRUE, val |-> v]
None == [some |-> FALSE, val |-> 0]

\* special_pad_len without the case of a title that fills the interior
special_pad_len_no_fill(width, total_len) ==
    IF width = 0 THEN Some(total_len \div 2) ELSE None

special_pad_len(width, total_len) ==
    IF width = 0 THEN Some(total_len \div 2)
    ELSE IF (total_len - SIDES) - width = 0 THEN Some(0)
    ELSE None

\* opposite_side_pad_len without the distance kept on the anchored side
opposite_side_pad_len_no_dist(width, total_len) ==
    total_len - width - SIDES

opposite_side_pad_len(width, total_len) ==
    total_len - width - DEFAULT_DIST_FROM_CORNER - SIDES

\* center_pad_len without the parity compensation
center_pad_len_no_parity(width, total_len, parity_diff_mod) ==
    (total_len \div 2) - (width \div 2) - 1

\* center_pad_len compensating by two glyphs instead of one
center_pad_len_double_mod(width, total_len, parity_diff_mod) ==
    LET res == (total_len \div 2) - (width \div 2) - 1
        total_parity == total_len % 2
    IN  IF (width % 2) # total_parity
        THEN IF total_parity = 1 THEN res + 2 * parity_diff_mod
                                 ELSE res - 2 * parity_diff_mod
        ELSE res

center_pad_len(width, total_len, parity_diff_mod) ==
    LET res == (total_len \div 2) - (width \div 2) - 1
        total_parity == total_len % 2
    IN  IF (width % 2) # total_parity
        THEN IF total_parity = 1 THEN res + parity_diff_mod
                                 ELSE res - parity_diff_mod
        ELSE res

\* left_pad_len taking the parity compensation as right_pad_len does
left_pad_len_compensated(self, total_len) ==
    LET width == Title_width(self)
        special == special_pad_len(width, total_len)
    IN  IF special.some THEN special.val
        ELSE CASE self.pos = "Left"     -> DEFAULT_DIST_FROM_CORNER
               [] self.pos = "Right"    -> opposite_side_pad_len(width, total_len)
               [] self.pos = "Centered" -> center_pad_len(width, total_len, 1)

left_pad_len(self, total_len) ==
    LET width == Title_width(self)
        special == special_pad_len(width, total_len)
    IN  IF special.some THEN special.val
        ELSE CASE self.pos = "Left"     -> DEFAULT_DIST_FROM_CORNER
               [] self.pos = "Right"    -> opposite_side_pad_len(width, total_len)
               [] self.pos = "Centered" -> center_pad_len(width, total_len, 0)

right_pad_len(self, total_len) ==
    LET width == Title_width(self)
        special == special_pad_len(width, total_len)
    IN  IF special.some THEN special.val
        ELSE CASE self.pos = "Right"    -> DEFAULT_DIST_FROM_CORNER
               [] self.pos = "Left"     -> opposite_side_pad_len(width, total_len)
               [] self.pos = "Centered" -> center_pad_len(width, total_len, 1)

\* the unsigned differences the pad functions evaluate, in the order of the
\* code: a negative one is an underflow
special_pad_len_diffs(width, total_len) ==
    IF width = 0 THEN {}
    ELSE {total_len - SIDES, (total_len - SIDES) - width}

opposite_side_pad_len_diffs(width, total_len) ==
    {total_len - width,
     total_len - width - DEFAULT_DIST_FROM_CORNER,
     total_len - width - DEFAULT_DIST_FROM_CORNER - SIDES}

center_pad_len_diffs(width, total_len, parity_diff_mod) ==
    LET res == (total_len \div 2) - (width \div 2) - 1
        total_parity == total_len % 2
    IN  {(total_len \div 2) - (width \div 2), res}
        \cup (IF (width % 2) # total_parity /\ total_parity = 0
              THEN {res - parity_diff_mod} ELSE {})

left_pad_len_diffs(self, total_len) ==
    LET width == Title_width(self)
    IN  special_pad_len_diffs(width, total_len)
        \cup (IF special_pad_len(width, total_len).some THEN {}
              ELSE CASE self.pos = "Left"     -> {}
                     [] self.pos = "Right"    -> opposite_side_pad_len_diffs(width, total_len)
                     [] self.pos = "Centered" -> center_pad_len_diffs(width, total_len, 0))

right_pad_len_diffs(self, total_len) ==
    LET width == Title_width(self)
    IN  special_pad_len_diffs(width, total_len)
        \cup (IF special_pad_len(width, total_len).some THEN {}
              ELSE CASE self.pos = "Right"    -> {}
                     [] self.pos = "Left"     -> opposite_side_pad_len_diffs(width, total_len)
                     [] self.pos = "Centered" -> center_pad_len_diffs(width, total_len, 1))

Titles_none == [top |-> Title_empty, bottom |-> Title_empty]

(***************************************************************************)
(* core/format.rs                                                          *)
(***************************************************************************)
\* line_len counting the sides twice
line_len_twice_sides(line, padding) == line.width + 2 * SIDES + (SIDES * padding)

line_len(line, padding) == line.width + SIDES + (SIDES * padding)

\* make_line without the fill of spaces
make_line_no_fill(edge_string, pad_string, text, min_len) ==
    edge_string \o pad_string.str \o text.str
    \o pad_string.str \o edge_string \o <<"\n">>

make_line(edge_string, pad_string, text, min_len) ==
    LET diff == min_len - line_len(text, pad_string.width)
    IN  edge_string \o pad_string.str \o text.str
        \o (IF diff > 0 THEN Repeat(<<" ">>, diff) ELSE <<>>)
        \o pad_string.str \o edge_string \o <<"\n">>

\* ins_title leaving the segment after the title unpainted
ins_title_unpainted(buf, edge_char, right_char, args) ==
    LET title == args.title
        left_pad == Repeat(edge_char, left_pad_len(title, args.len))
        right_pad == Repeat(edge_char, right_pad_len(title, args.len)) \o right_char
    IN  buf \o left_pad \o title.text.str \o right_pad

\* args: [len, style, title, left, right], the HorizLineArgs
ins_title(buf, edge_char, right_char, args) ==
    LET title == args.title
        left_pad == Repeat(edge_char, left_pad_len(title, args.len))
        right_pad == Repeat(edge_char, right_pad_len(title, args.len)) \o right_char
    IN  buf \o left_pad \o title.text.str
        \o (IF is_plain(args.style.ansi) THEN right_pad
                                         ELSE paint(args.style.ansi, right_pad))

make_top_or_bottom_line(args) ==
    LET style == args.style
        shape == style.shape
        edge_char == get_char(shape, "Edge")
        left_char == get_char(shape, args.left)
        right_char == get_char(shape, args.right)
        tmp_buf == IF ~Title_is_empty(args.title)
                   THEN ins_title(left_char, edge_char, right_char, args)
                   ELSE left_char \o Repeat(edge_char, args.len - SIDES) \o right_char
    IN  IF is_plain(style.ansi) THEN tmp_buf ELSE paint(style.ansi, tmp_buf)

make_top_line(tbox, len) ==
    make_top_or_bottom_line([len |-> len, style |-> tbox.border_style,
                             title |-> tbox.titles.top,
                             left |-> "TopLeft", right |-> "TopRight"])
    \o <<"\n">>

\* make_bottom_line ending the row with a newline, as make_top_line does
make_bottom_line_newline(tbox, len) ==
    make_top_or_bottom_line([len |-> len, style |-> tbox.border_style,
                             title |-> tbox.titles.bottom,
                             left |-> "BotLeft", right |-> "BotRight"])
    \o <<"\n">>

make_bottom_line(tbox, len) ==
    make_top_or_bottom_line([len |-> len, style |-> tbox.border_style,
                             title |-> tbox.titles.bottom,
                             left |-> "BotLeft", right |-> "BotRight"])

\* the unsigned differences evaluated while a row is made
make_line_diffs(text, pad_string, min_len) ==
    {min_len - line_len(text, pad_string.width)}

alloc_title_buf_diffs(args) == {args.len - Title_width(args.title)}

make_top_or_bottom_line_diffs(args) ==
    alloc_title_buf_diffs(args)
    \cup (IF ~Title_is_empty(args.title)
          THEN left_pad_len_diffs(args.title, args.len)
               \cup right_pad_len_diffs(args.title, args.len)
          ELSE {args.len - SIDES})

(***************************************************************************)
(* core.rs: TermBox                                                        *)
(***************************************************************************)
TermBox_default ==
    [border_style |-> BorderStyle_new_single, padding |-> Padding_none,
     titles |-> Titles_none, lines |-> <<>>]

\* Self { lines, ..self }
TermBox_with_lines(self, lines) == [self EXCEPT !.lines = lines]

\* append putting the line before the lines of the box
TermBox_append_front(self, line) == [self EXCEPT !.lines = <<line>> \o @]

\* self.lines.push(line.to_string())
TermBox_append(self, line) == [self EXCEPT !.lines = Append(@, line)]

\* self.append(line); self
TermBox_append_with(self, line) == TermBox_append(self, line)

\* the lines counted last to first
counted_lines_reversed(self) ==
    [i \in 1..Len(self.lines) |->
        CountedString_new(self.lines[Len(self.lines) + 1 - i])]

\* the CountedStrings pushed by map_to_counts_and_find_longest
counted_lines(self) == [i \in 1..Len(self.lines) |-> CountedString_new(self.lines[i])]

\* map_to_counts_and_find_longest: the index (from 1) of the first widest
\* line, 0 for None
RECURSIVE find_longest(_, _, _)
find_longest(lines, idx, max_idx) ==
    IF idx > Len(lines) THEN max_idx
    ELSE IF max_idx = 0 THEN find_longest(lines, idx + 1, idx)
    ELSE IF CountedString_gt(lines[idx], lines[max_idx])
         THEN find_longest(lines, idx + 1, idx)
         ELSE find_longest(lines, idx + 1, max_idx)

\* map_to_counts_and_find_longest keeping the first line whatever follows
map_to_counts_and_find_longest_first(self) == IF self.lines = <<>> THEN 0 ELSE 1

map_to_counts_and_find_longest(self) == find_longest(counted_lines(self), 1, 0)

\* longest_line looking at the lines only, not at the titles
longest_line_lines_only(self) ==
    LET longest_idx == map_to_counts_and_find_longest(self)
    IN  IF longest_idx # 0 THEN counted_lines(self)[longest_idx]
                           ELSE CountedString_EMPTY

longest_line(self) ==
    LET titles_longest == cmp_max(self.titles.top.text, self.titles.bottom.text)
        longest_idx == map_to_counts_and_find_longest(self)
    IN  IF longest_idx # 0
        THEN cmp_max(titles_longest, counted_lines(self)[longest_idx])
        ELSE titles_longest

\* the line_len local of into_string without the MIN_LINE_LEN floor
box_line_len_no_min(self) == line_len(longest_line(self), self.padding.count)

\* the line_len local of into_string
box_line_len(self) ==
    Max(MIN_LINE_LEN, line_len(longest_line(self), self.padding.count))

RECURSIVE make_lines(_, _, _, _)
make_lines(edge_string, pad_string, lines, len) ==
    IF lines = <<>> THEN <<>>
    ELSE make_line(edge_string, pad_string, Head(lines), len)
         \o make_lines(edge_string, pad_string, Tail(lines), len)

into_string(self) ==
    LET len == box_line_len(self)
    IN  make_top_line(self, len)
        \o make_lines(get_edge_string(self.border_style),
                      into_counted_string(self.padding),
                      counted_lines(self), len)
        \o make_bottom_line(self, len)

\* the unsigned differences evaluated by into_string
into_string_diffs(self) ==
    LET len == box_line_len(self)
        pad_string == into_counted_string(self.padding)
    IN  make_top_or_bottom_line_diffs([len |-> len, title |-> self.titles.top])
        \cup UNION {make_line_diffs(counted_lines(self)[i], pad_string, len) :
                      i \in 1..Len(self.lines)}
        \cup make_top_or_bottom_line_diffs([len |-> len, title |-> self.titles.bottom])

(***************************************************************************)
(* The inputs the callers of the model give.                               *)
(***************************************************************************)
PlainTexts == {Repeat(<<"a">>, n) : n \in 0..MaxWidth}

\* a line the caller styled itself: Color::Red.paint of a wide letter
LineTexts == PlainTexts \cup {paint("Red", <<"W">>)}

\* a plain title, a styled title of two columns, and Color::Red.paint(""):
\* escape sequences only, not empty, no visible width
TitleTexts == {<<"a">>, paint("Red", <<"W">>), paint("Red", <<>>)}

TitleInputs == {Title_empty} \cup {Title(t, p) : t \in TitleTexts, p \in TitlePositions}

BorderStyleInputs ==
    {BorderStyle_with_style(b, s) :
        b \in {BorderStyle_new_single, BorderStyle_new_double}, s \in {"Plain", "Bold"}}

PadChars == {"\t", "-"}

ProbeTexts == {Repeat(<<"a">>, n) : n \in 1..MaxProbeWidth} \cup {paint("Red", <<>>)}

ProbeTitles == {Title(t, p) : t \in ProbeTexts, p \in TitlePositions}

(***************************************************************************)
(* The state machine: a box is built from TermBox::default() by field      *)
(* assignments and append, then consumed by one of the output methods.     *)
(***************************************************************************)
NoCall == [chr |-> "NUL", count |-> 0]

NoProbe == [title |-> Title_empty, total_len |-> 0, left |-> -1, right |-> -1]

NoHist == [border_style |-> BorderStyle_new_single, padding |-> Padding_none,
           titles |-> Titles_none, lines |-> <<>>, set |-> FALSE, calls |-> <<>>]

Init ==
    /\ box = TermBox_default
    /\ pc = "build"
    /\ out = <<>>
    /\ sink = <<>>
    /\ pad_call = NoCall
    /\ probe = NoProbe
    /\ hist = NoHist

\* box.border_style = BorderStyle::new_single() / new_double() [.with_style(..)]
SetBorderStyle ==
    /\ pc = "build"
    /\ \E bs \in BorderStyleInputs : box' = [box EXCEPT !.border_style = bs]
    /\ UNCHANGED <<pc, out, sink, pad_call, probe, hist>>

\* box.padding = Padding::new(chr, count)
SetPadding ==
    /\ pc = "build"
    /\ \E chr \in PadChars, count \in 0..MaxPadCount :
          /\ box' = [box EXCEPT !.padding = Padding_new(chr, count)]
          /\ pad_call' = [chr |-> chr, count |-> count]
    /\ UNCHANGED <<pc, out, sink, probe, hist>>

\* box.titles.top = Title(text, pos)
SetTopTitle ==
    /\ pc = "build"
    /\ \E t \in TitleInputs : box' = [box EXCEPT !.titles.top = t]
    /\ UNCHANGED <<pc, out, sink, pad_call, probe, hist>>

\* box.titles.bottom = Title(text, pos)
SetBottomTitle ==
    /\ pc = "build"
    /\ \E t \in TitleInputs : box' = [box EXCEPT !.titles.bottom = t]
    /\ UNCHANGED <<pc, out, sink, pad_call, probe, hist>>

\* TermBox::append (append_with is append, then the box is returned)
append ==
    /\ pc = "build"
    /\ Len(box.lines) < MaxLines
    /\ \E line \in LineTexts : box' = TermBox_append(box, line)
    /\ UNCHANGED <<pc, out, sink, pad_call, probe, hist>>

\* TermBox::into_string consumes the box
IntoString ==
    /\ pc = "build"
    /\ out' = into_string(box)
    /\ pc' = "into_string"
    /\ UNCHANGED <<box, sink, pad_call, probe, hist>>

\* TermBox::write_to: write!(write, "{}", self.into_string())
WriteTo ==
    /\ pc = "build"
    /\ sink' = sink \o into_string(box)
    /\ pc' = "write_to"
    /\ UNCHANGED <<box, out, pad_call, probe, hist>>

\* TermBox::print_to: writeln!(write, "{}", self.into_string())
PrintTo ==
    /\ pc = "build"
    /\ sink' = sink \o into_string(box) \o <<"\n">>
    /\ pc' = "print_to"
    /\ UNCHANGED <<box, out, pad_call, probe, hist>>

Next ==
    \/ SetBorderStyle
    \/ SetPadding
    \/ SetTopTitle
    \/ SetBottomTitle
    \/ append
    \/ IntoString
    \/ WriteTo
    \/ PrintTo

Spec == Init /\ [][Next]_vars

(***************************************************************************)
(* The pad functions of title.rs called directly: a title and the length   *)
(* of a border row that holds it (into_string only passes rows at least as *)
(* long as the title plus the two corners, and never shorter than          *)
(* MIN_LINE_LEN).                                                          *)
(***************************************************************************)
InitPad ==
    /\ box = TermBox_default
    /\ pc = "probe"
    /\ out = <<>>
    /\ sink = <<>>
    /\ pad_call = NoCall
    /\ hist = NoHist
    /\ \E t \in ProbeTitles :
         \E n \in Max(MIN_LINE_LEN, Title_width(t) + SIDES)..MaxTotalLen :
            probe = [title |-> t, total_len |-> n, left |-> -1, right |-> -1]

CallLeftPadLen ==
    /\ pc = "probe"
    /\ probe.left = -1
    /\ probe' = [probe EXCEPT !.left = left_pad_len(probe.title, probe.total_len)]
    /\ UNCHANGED <<box, pc, out, sink, pad_call, hist>>

CallRightPadLen ==
    /\ pc = "probe"
    /\ probe.right = -1
    /\ probe' = [probe EXCEPT !.right = right_pad_len(probe.title, probe.total_len)]
    /\ UNCHANGED <<box, pc, out, sink, pad_call, hist>>

NextPad ==
    \/ CallLeftPadLen
    \/ CallRightPadLen

SpecPad == InitPad /\ [][NextPad]_vars

(***************************************************************************)
(* The line methods of TermBox called on any box: append, append_with and  *)
(* with_lines, with the box they started from and the lines they were      *)
(* given kept in hist.                                                     *)
(***************************************************************************)
LinesInputs ==
    UNION {[1..n -> LineTexts] : n \in 0..MaxLines}

BoxInputs ==
    {[border_style |-> bs, padding |-> Padding_new(chr, count),
      titles |-> ts, lines |-> ls] :
        bs \in BorderStyleInputs, chr \in PadChars, count \in 0..MaxPadCount,
        ts \in {Titles_none,
                [top |-> Title(<<"a">>, "Left"),
                 bottom |-> Title(paint("Red", <<"W">>), "Centered")],
                [top |-> Title(paint("Red", <<>>), "Centered"),
                 bottom |-> Title_empty]},
        ls \in LinesInputs}

InitLines ==
    /\ box \in BoxInputs
    /\ pc = "lines"
    /\ out = <<>>
    /\ sink = <<>>
    /\ pad_call = NoCall
    /\ probe = NoProbe
    /\ hist = [border_style |-> box.border_style, padding |-> box.padding,
               titles |-> box.titles, lines |-> box.lines,
               set |-> FALSE, calls |-> <<>>]

\* box.append(line)
CallAppend ==
    /\ pc = "lines"
    /\ Len(box.lines) < MaxLines
    /\ \E line \in LineTexts :
          /\ box' = TermBox_append(box, line)
          /\ hist' = [hist EXCEPT
                         !.calls = Append(@, [op |-> "append", line |-> line])]
    /\ UNCHANGED <<pc, out, sink, pad_call, probe>>

\* box = box.append_with(line)
CallAppendWith ==
    /\ pc = "lines"
    /\ Len(box.lines) < MaxLines
    /\ \E line \in LineTexts :
          /\ box' = TermBox_append_with(box, line)
          /\ hist' = [hist EXCEPT
                         !.calls = Append(@, [op |-> "append_with", line |-> line])]
    /\ UNCHANGED <<pc, out, sink, pad_call, probe>>

\* box = box.with_lines(lines)
CallWithLines ==
    /\ pc = "lines"
    /\ \E lines \in LinesInputs :
          /\ box' = TermBox_with_lines(box, lines)
          /\ hist' = [hist EXCEPT !.lines = lines, !.set = TRUE, !.calls = <<>>]
    /\ UNCHANGED <<pc, out, sink, pad_call, probe>>

NextLines ==
    \/ CallAppend
    \/ CallAppendWith
    \/ CallWithLines

SpecLines == InitLines /\ [][NextLines]_vars

(***************************************************************************)
(* Helpers of the properties.                                              *)
(***************************************************************************)
\* string.split('\n')
Rows(s) ==
    LET newlines == {i \in 1..Len(s) : s[i] = "\n"}
        \* the place of the k-th newline; past the end for the last row
        stop(k) == IF k > Cardinality(newlines) THEN Len(s) + 1
                   ELSE CHOOSE i \in newlines :
                            Cardinality({j \in newlines : j <= i}) = k
        start(k) == IF k = 1 THEN 1 ELSE stop(k - 1) + 1
    IN  [k \in 1..(Cardinality(newlines) + 1) |-> SubSeq(s, start(k), stop(k) - 1)]

\* the characters of a string that take columns
Visible(s) == SelectSeq(s, LAMBDA c : CharWidth(c) > 0)

\* both pad functions have returned
Probed == pc = "probe" /\ probe.left # -1 /\ probe.right # -1

SetMax(S) == CHOOSE x \in S : \A y \in S : y <= x

\* the visible widths of the lines of a box, and of its lines and titles
LineWidths(b) == {ansi_width(b.lines[i]) : i \in 1..Len(b.lines)}

AllWidths(b) ==
    LineWidths(b) \cup {ansi_width(b.titles.top.text.str),
                        ansi_width(b.titles.bottom.text.str)}

\* a title that is not empty by its raw length but takes no column
ZeroWidthTitle(t) == t.text.str # <<>> /\ ansi_width(t.text.str) = 0

NoTitles(b) == b.titles.top.text.str = <<>> /\ b.titles.bottom.text.str = <<>>

\* rows joined by one newline between two rows
RECURSIVE JoinRows(_)
JoinRows(rows) ==
    IF rows = <<>> THEN <<>>
    ELSE IF Len(rows) = 1 THEN rows[1]
    ELSE rows[1] \o <<"\n">> \o JoinRows(Tail(rows))

Count(s, c) == Cardinality({i \in 1..Len(s) : s[i] = c})

\* the parts of a border row of a box before any style is applied: the
\* corners, the title text and the edge glyphs on either side of it
BorderParts(b, title, left_corner, right_corner) ==
    LET shape == b.border_style.shape
        edge == get_char(shape, "Edge")
        L == box_line_len(b)
        absent == title.text.str = <<>>
    IN  [lc    |-> get_char(shape, left_corner),
         left  |-> IF absent THEN Repeat(edge, L - 2)
                             ELSE Repeat(edge, left_pad_len(title, L)),
         text  |-> title.text.str,
         right |-> IF absent THEN <<>>
                             ELSE Repeat(edge, right_pad_len(title, L)),
         rc    |-> get_char(shape, right_corner)]

\* the parts of a border row put together and styled: nothing is wrapped
\* under a plain style; else the whole row is, and with a title also the
\* segment after it
StyledBorderRow(ansi, p) ==
    IF is_plain(ansi) THEN p.lc \o p.left \o p.text \o p.right \o p.rc
    ELSE IF p.text = <<>> THEN paint(ansi, p.lc \o p.left \o p.right \o p.rc)
    ELSE paint(ansi, p.lc \o p.left \o p.text \o paint(ansi, p.right \o p.rc))

TopParts(b) == BorderParts(b, b.titles.top, "TopLeft", "TopRight")

BottomParts(b) == BorderParts(b, b.titles.bottom, "BotLeft", "BotRight")

\* a content row with the side glyph given as a string
ContentRow(b, i, side) ==
    LET padding == Repeat(<<b.padding.chr>>, b.padding.count)
        fill == box_line_len(b) - ansi_width(b.lines[i]) - 2 - 2 * b.padding.count
    IN  side \o padding \o b.lines[i] \o Repeat(<<" ">>, fill) \o padding \o side

(***************************************************************************)
(* C1: for every box, all rows of the string returned by into_string,      *)
(* split on newline, have the same visible width.                          *)
(***************************************************************************)
C1_AllRowsSameWidth ==
    pc = "into_string" =>
        LET rows == Rows(out)
        IN  \A i, j \in 1..Len(rows) : ansi_width(rows[i]) = ansi_width(rows[j])

(***************************************************************************)
(* C2: for every position, every title of visible width w >= 1 and every   *)
(* total_len >= w + 2: left_pad_len + w + right_pad_len + 2 = total_len.   *)
(***************************************************************************)
C2_PadsFillBorder ==
    (/\ Probed
     /\ Title_width(probe.title) >= 1
     /\ probe.total_len >= Title_width(probe.title) + 2)
    => probe.left + Title_width(probe.title) + probe.right + 2 = probe.total_len

\* a centered title whose parity differs from the row's, with room to spare
C2_Witness ==
    /\ Probed
    /\ probe.title.pos = "Centered"
    /\ Title_width(probe.title) >= 1
    /\ probe.total_len > Title_width(probe.title) + 2
    /\ Title_width(probe.title) % 2 # probe.total_len % 2

(***************************************************************************)
(* C3 as stated: every emitted row is max(3, longest_width + 2*SIDES +     *)
(* 2*padding.count) columns wide, longest_width the largest visible width  *)
(* among the lines and the two titles.                                     *)
(***************************************************************************)
C3_RowWidthTwiceSides ==
    pc = "into_string" =>
        LET rows == Rows(out)
            L == Max(3, SetMax(AllWidths(box)) + 2 * SIDES + 2 * box.padding.count)
        IN  \A i \in 1..Len(rows) : ansi_width(rows[i]) = L

(***************************************************************************)
(* C3 amended: line_len is max(3, longest_width + SIDES +                  *)
(* SIDES*padding.count), and every emitted row is line_len columns wide,   *)
(* but for a border row whose title is non-empty with no visible width,    *)
(* which is 2*(line_len / 2) + 2 columns wide.                             *)
(***************************************************************************)
C3_LineLen(b) == Max(3, SetMax(AllWidths(b)) + SIDES + SIDES * b.padding.count)

C3_RowWidthIsLineLen ==
    pc = "into_string" =>
        LET rows == Rows(out)
            L == C3_LineLen(box)
            zero_title(i) ==
                \/ i = 1 /\ ZeroWidthTitle(box.titles.top)
                \/ i = Len(rows) /\ ZeroWidthTitle(box.titles.bottom)
        IN  /\ box_line_len(box) = L
            /\ Len(rows) = Len(box.lines) + 2
            /\ \A i \in 1..Len(rows) :
                  ansi_width(rows[i]) = IF zero_title(i) THEN 2 * (L \div 2) + 2 ELSE L

\* a padded box whose widest element is a title, rendered
C3_Witness ==
    /\ pc = "into_string"
    /\ box.padding.count >= 1
    /\ Len(box.lines) >= 1
    /\ Title_width(box.titles.top) = SetMax(AllWidths(box))
    /\ Title_width(box.titles.top) > SetMax(LineWidths(box))

(***************************************************************************)
(* C4: a box with no titles, padding count 0, a plain border and at least  *)
(* one line, W >= 1 the largest line width, renders as the top border      *)
(* (corner, W edges, corner), each line in order as side, text, W - width  *)
(* spaces, side, and the bottom border; every row is W + 2 columns wide.   *)
(***************************************************************************)
C4_Expected(b) ==
    LET W == SetMax(LineWidths(b))
        shape == b.border_style.shape
        edge == get_char(shape, "Edge")
        side == get_char(shape, "Side")
        row(i) == side \o b.lines[i]
                  \o Repeat(<<" ">>, W - ansi_width(b.lines[i])) \o side
    IN  JoinRows(<<get_char(shape, "TopLeft") \o Repeat(edge, W)
                     \o get_char(shape, "TopRight")>>
                 \o [i \in 1..Len(b.lines) |-> row(i)]
                 \o <<get_char(shape, "BotLeft") \o Repeat(edge, W)
                       \o get_char(shape, "BotRight")>>)

C4_Case ==
    /\ pc = "into_string"
    /\ NoTitles(box)
    /\ box.padding.count = 0
    /\ is_plain(box.border_style.ansi)
    /\ Len(box.lines) >= 1
    /\ SetMax(LineWidths(box)) >= 1

C4_PlainBoxLayout ==
    C4_Case =>
        /\ out = C4_Expected(box)
        /\ LET rows == Rows(out)
               W == SetMax(LineWidths(box))
           IN  \A i \in 1..Len(rows) : ansi_width(rows[i]) = W + 2

\* two lines, the second the wider one
C4_Witness ==
    /\ C4_Case
    /\ Len(box.lines) = 2
    /\ ansi_width(box.lines[1]) < ansi_width(box.lines[2])

(***************************************************************************)
(* C5: a box with no lines, no titles and padding count 0 renders exactly  *)
(* two rows of width 3, each left corner, one edge, right corner of the    *)
(* shape; with an unstyled border they are the six glyphs and the newline. *)
(***************************************************************************)
C5_Case ==
    /\ pc = "into_string"
    /\ box.lines = <<>>
    /\ NoTitles(box)
    /\ box.padding.count = 0

C5_EmptyBox ==
    C5_Case =>
        LET rows == Rows(out)
            single == box.border_style.shape = "Single"
            top == IF single THEN <<"s_tl", "s_h", "s_tr">> ELSE <<"d_tl", "d_h", "d_tr">>
            bottom == IF single THEN <<"s_bl", "s_h", "s_br">> ELSE <<"d_bl", "d_h", "d_br">>
        IN  /\ Len(rows) = 2
            /\ ansi_width(rows[1]) = 3 /\ ansi_width(rows[2]) = 3
            /\ Visible(rows[1]) = top
            /\ Visible(rows[2]) = bottom
            /\ is_plain(box.border_style.ansi) => out = top \o <<"\n">> \o bottom

\* the empty box with the Double shape, rendered
C5_Witness ==
    /\ C5_Case
    /\ box.border_style = BorderStyle_new_double

(***************************************************************************)
(* C6: a line of visible width 0 renders as side glyph, padding,           *)
(* line_len - 2 - 2*padding.count spaces, padding, side glyph; a default   *)
(* box with the one line "" renders as corner edge corner / side space     *)
(* side / corner edge corner.                                              *)
(***************************************************************************)
C6_EmptyLineFullWidth ==
    pc = "into_string" =>
        LET rows == Rows(out)
            L == Max(3, SetMax(AllWidths(box)) + 2 + 2 * box.padding.count)
            side == paint(box.border_style.ansi, get_char(box.border_style.shape, "Side"))
            padding == Repeat(<<box.padding.chr>>, box.padding.count)
        IN  /\ \A i \in 1..Len(box.lines) :
                  ansi_width(box.lines[i]) = 0 =>
                      rows[i + 1] = side \o padding \o box.lines[i]
                                    \o Repeat(<<" ">>, L - 2 - 2 * box.padding.count)
                                    \o padding \o side
            /\ box = [TermBox_default EXCEPT !.lines = <<<<>>>>] =>
                  out = <<"s_tl", "s_h", "s_tr", "\n",
                          "s_v", " ", "s_v", "\n",
                          "s_bl", "s_h", "s_br">>

\* an empty line below a wider one in a padded box, rendered
C6_Witness ==
    /\ pc = "into_string"
    /\ box.padding.count >= 1
    /\ Len(box.lines) = 2
    /\ ansi_width(box.lines[1]) >= 2
    /\ box.lines[2] = <<>>

(***************************************************************************)
(* C7: for a title of width w >= 1 that does not fill the interior         *)
(* (total_len - 2 > w), a Left title has left_pad_len = 1 and              *)
(* right_pad_len = total_len - w - 3, a Right title the mirror image.      *)
(***************************************************************************)
C7_AnchoredPads ==
    (/\ Probed
     /\ Title_width(probe.title) >= 1
     /\ probe.total_len - 2 > Title_width(probe.title))
    => /\ probe.title.pos = "Left" =>
            /\ probe.left = 1
            /\ probe.right = probe.total_len - Title_width(probe.title) - 3
       /\ probe.title.pos = "Right" =>
            /\ probe.right = 1
            /\ probe.left = probe.total_len - Title_width(probe.title) - 3

\* a Right title with more than one glyph of room on its far side
C7_Witness ==
    /\ Probed
    /\ probe.title.pos = "Right"
    /\ Title_width(probe.title) >= 1
    /\ probe.left >= 2

(***************************************************************************)
(* C8: for a Centered title of width w >= 1 in a row of total_len >= w + 2,*)
(* left_pad_len = right_pad_len when w and total_len have the same parity, *)
(* and the two differ by exactly 1 when the parities differ.               *)
(***************************************************************************)
C8_CenteredParity ==
    (/\ Probed
     /\ probe.title.pos = "Centered"
     /\ Title_width(probe.title) >= 1
     /\ probe.total_len >= Title_width(probe.title) + 2)
    => IF Title_width(probe.title) % 2 = probe.total_len % 2
       THEN probe.left = probe.right
       ELSE probe.left - probe.right \in {1, -1}

\* an odd title centered in an even row
C8_Witness ==
    /\ Probed
    /\ probe.title.pos = "Centered"
    /\ Title_width(probe.title) % 2 = 1
    /\ probe.total_len % 2 = 0

(***************************************************************************)
(* C9: the output of into_string and write_to does not end with a newline: *)
(* its rows are separated by one newline each and the bottom border row is *)
(* last; print_to writes the into_string output, then one newline.         *)
(***************************************************************************)
C9_Unterminated(s, b) ==
    LET rows == Rows(s)
        shape == b.border_style.shape
    IN  /\ s # <<>>
        /\ s[Len(s)] # "\n"
        /\ Count(s, "\n") = Len(b.lines) + 1
        /\ Len(rows) = Len(b.lines) + 2
        /\ \A i \in 1..Len(rows) : rows[i] # <<>>
        /\ <<Head(Visible(rows[Len(rows)]))>> = get_char(shape, "BotLeft")
        /\ <<Visible(rows[Len(rows)])[Len(Visible(rows[Len(rows)]))]>>
              = get_char(shape, "BotRight")

C9_TrailingNewline ==
    /\ pc = "into_string" => C9_Unterminated(out, box)
    /\ pc = "write_to" => C9_Unterminated(sink, box) /\ sink = into_string(box)
    /\ pc = "print_to" =>
          /\ Len(sink) >= 2
          /\ sink[Len(sink)] = "\n"
          /\ C9_Unterminated(SubSeq(sink, 1, Len(sink) - 1), box)
          /\ SubSeq(sink, 1, Len(sink) - 1) = into_string(box)

\* a box with lines and a bottom title, printed
C9_Witness ==
    /\ pc = "print_to"
    /\ Len(box.lines) >= 1
    /\ Title_width(box.titles.bottom) >= 1

(***************************************************************************)
(* C10: Padding::new('\t', N) equals Padding::spaces(8*N), so no Padding   *)
(* holds a tab, and a box padded with N tabs renders as the same box       *)
(* padded with 8*N spaces.                                                 *)
(***************************************************************************)
C10_TabIsEightSpaces ==
    /\ box.padding.chr # "\t"
    /\ pad_call.chr = "\t" =>
          /\ box.padding = [chr |-> " ", count |-> 8 * pad_call.count]
          /\ box.padding = Padding_spaces(8 * pad_call.count)
          /\ pc = "into_string" =>
                out = into_string([box EXCEPT
                                     !.padding = [chr |-> " ", count |-> 8 * pad_call.count]])

\* a box with a line, padded by Padding::new('\t', N), N >= 1, rendered
C10_Witness ==
    /\ pc = "into_string"
    /\ pad_call.chr = "\t"
    /\ pad_call.count >= 1
    /\ Len(box.lines) >= 1

(***************************************************************************)
(* C11: from any box, after any sequence of append calls the lines of the  *)
(* box are the lines it started with followed by the appended lines in     *)
(* call order, and border_style, padding and titles are unchanged;         *)
(* append_with gives the box append gives; with_lines(ls) gives a box      *)
(* whose lines are ls and whose other three fields are the original's.     *)
(***************************************************************************)
C11_LinesFrame ==
    pc = "lines" =>
        /\ box.lines = hist.lines \o [i \in 1..Len(hist.calls) |-> hist.calls[i].line]
        /\ box.border_style = hist.border_style
        /\ box.padding = hist.padding
        /\ box.titles = hist.titles
        /\ \A line \in LineTexts :
              TermBox_append_with(box, line) = TermBox_append(box, line)

\* a titled box given its lines by with_lines, then an append and an
\* append_with of two different lines
C11_Witness ==
    /\ pc = "lines"
    /\ hist.set
    /\ box.titles # Titles_none
    /\ Len(hist.calls) = 2
    /\ hist.calls[1].op = "append"
    /\ hist.calls[2].op = "append_with"
    /\ hist.calls[1].line # hist.calls[2].line

(***************************************************************************)
(* C13: a border with a plain style renders as the unstyled border of the  *)
(* same shape: no paint wrapper is written around the top row, the bottom  *)
(* row, the segment after a title or the side glyph of a content row.      *)
(***************************************************************************)
C13_Case == pc = "into_string" /\ is_plain(box.border_style.ansi)

C13_PlainIsUnstyled ==
    C13_Case =>
        LET rows == Rows(out)
            top == TopParts(box)
            bottom == BottomParts(box)
            side == get_char(box.border_style.shape, "Side")
            unstyled == IF box.border_style.shape = "Single"
                        THEN BorderStyle_new_single ELSE BorderStyle_new_double
        IN  /\ out = into_string([box EXCEPT !.border_style = unstyled])
            /\ Len(rows) = Len(box.lines) + 2
            /\ rows[1] = top.lc \o top.left \o top.text \o top.right \o top.rc
            /\ rows[Len(rows)] =
                  bottom.lc \o bottom.left \o bottom.text \o bottom.right \o bottom.rc
            /\ \A i \in 1..Len(box.lines) : rows[i + 1] = ContentRow(box, i, side)
            /\ Count(out, "ESC[1m") = 0

\* a Double border given the plain style, around a line and under a title
C13_Witness ==
    /\ C13_Case
    /\ box.border_style = BorderStyle_with_style(BorderStyle_new_double, "Plain")
    /\ Title_width(box.titles.top) >= 1
    /\ Len(box.lines) >= 1

(***************************************************************************)
(* C14: a title is absent only when its raw text is empty.  A title of     *)
(* non-zero raw length and no visible width is inserted like any title,    *)
(* with left_pad_len = right_pad_len = total_len / 2 edge glyphs; only a   *)
(* title of zero raw length gets the interior of total_len - 2 edge        *)
(* glyphs with no positioning.                                             *)
(***************************************************************************)
C14_Row(b, title, row, left_corner, right_corner) ==
    LET L == box_line_len(b)
        ansi == b.border_style.ansi
        shape == b.border_style.shape
        edge == get_char(shape, "Edge")
        lc == get_char(shape, left_corner)
        rc == get_char(shape, right_corner)
        raw_len == Len(title.text.str)
    IN  /\ Title_is_empty(title) <=> raw_len = 0
        /\ (raw_len > 0 /\ Title_width(title) = 0) =>
              /\ left_pad_len(title, L) = L \div 2
              /\ right_pad_len(title, L) = L \div 2
              /\ row = StyledBorderRow(ansi,
                          [lc |-> lc, left |-> Repeat(edge, L \div 2),
                           text |-> title.text.str,
                           right |-> Repeat(edge, L \div 2), rc |-> rc])
        /\ raw_len = 0 =>
              /\ Count(row, edge[1]) = L - 2
              /\ row = StyledBorderRow(ansi,
                          [lc |-> lc, left |-> Repeat(edge, L - 2),
                           text |-> <<>>, right |-> <<>>, rc |-> rc])
        /\ raw_len > 0 =>
              Count(row, edge[1]) = left_pad_len(title, L) + right_pad_len(title, L)

C14_TitlePresence ==
    pc = "into_string" =>
        LET rows == Rows(out)
        IN  /\ C14_Row(box, box.titles.top, rows[1], "TopLeft", "TopRight")
            /\ C14_Row(box, box.titles.bottom, rows[Len(rows)], "BotLeft", "BotRight")

\* a top title of escape sequences only over a line, no bottom title
C14_Witness ==
    /\ pc = "into_string"
    /\ ZeroWidthTitle(box.titles.top)
    /\ Title_is_empty(box.titles.bottom)
    /\ box_line_len(box) >= 4

(***************************************************************************)
(* C15 as stated: for a Centered title whose width parity differs from     *)
(* total_len's, with base = total_len/2 - width/2 - 1: when total_len is   *)
(* odd, left_pad_len = base and right_pad_len differs from base by one;    *)
(* when total_len is even, right_pad_len = base and left_pad_len differs   *)
(* from base by one.                                                       *)
(***************************************************************************)
C15_Case ==
    /\ Probed
    /\ probe.title.pos = "Centered"
    /\ Title_width(probe.title) % 2 # probe.total_len % 2

C15_Base == (probe.total_len \div 2) - (Title_width(probe.title) \div 2) - 1

C15_CompensationBySide ==
    C15_Case =>
        IF probe.total_len % 2 = 1
        THEN probe.left = C15_Base /\ probe.right - C15_Base \in {1, -1}
        ELSE probe.right = C15_Base /\ probe.left - C15_Base \in {1, -1}

(***************************************************************************)
(* C15 amended: for a Centered title of width >= 1 whose width parity      *)
(* differs from total_len's, left_pad_len = base always, and the           *)
(* compensation is on the right pad: right_pad_len = base + 1 when         *)
(* total_len is odd, base - 1 when total_len is even.  A title of width 0  *)
(* has both pads total_len / 2, which is base + 1.                         *)
(***************************************************************************)
C15_RightPadCompensates ==
    C15_Case =>
        IF Title_width(probe.title) >= 1
        THEN /\ probe.left = C15_Base
             /\ probe.right = IF probe.total_len % 2 = 1 THEN C15_Base + 1
                                                         ELSE C15_Base - 1
        ELSE /\ probe.left = probe.total_len \div 2
             /\ probe.right = probe.total_len \div 2
             /\ probe.left = C15_Base + 1

\* an odd title centered in an even row: the right pad is the shorter one
C15_Witness ==
    /\ C15_Case
    /\ Title_width(probe.title) >= 1
    /\ probe.total_len % 2 = 0
    /\ probe.right = probe.left - 1

(***************************************************************************)
(* C16: into_string never underflows an unsigned subtraction.  The fill    *)
(* count line_len - (width + 2 + 2*padding.count) of every line is >= 0;   *)
(* for every non-empty title total_len >= width + 2, so total_len - 2 -    *)
(* width, total_len - width - 3 when used, the centered base and its - 1   *)
(* adjustment when made, and total_len - width are >= 0, and total_len >   *)
(* width.                                                                  *)
(***************************************************************************)
C16_Title(t, L) ==
    LET w == Title_width(t)
        base == (L \div 2) - (w \div 2) - 1
        fills == L - 2 - w = 0
    IN  ~Title_is_empty(t) =>
          /\ L >= w + 2
          /\ L - 2 - w >= 0
          /\ L - w >= 0
          /\ L > w
          /\ base >= 0
          /\ (w >= 1 /\ ~fills /\ t.pos \in {"Left", "Right"}) => L - w - 3 >= 0
          /\ (w >= 1 /\ t.pos = "Centered" /\ w % 2 # L % 2 /\ L % 2 = 0) =>
                base - 1 >= 0

C16_NoUnderflow ==
    pc = "into_string" =>
        LET L == box_line_len(box)
        IN  /\ \A d \in into_string_diffs(box) : d >= 0
            /\ \A i \in 1..Len(box.lines) :
                  L - (ansi_width(box.lines[i]) + 2 + 2 * box.padding.count) >= 0
            /\ C16_Title(box.titles.top, L)
            /\ C16_Title(box.titles.bottom, L)

\* an odd title centered in an even row (the - 1 adjustment is made), an
\* anchored title in the other border, and a line that needs fill
C16_Witness ==
    /\ pc = "into_string"
    /\ box.titles.top.pos = "Centered"
    /\ Title_width(box.titles.top) = 1
    /\ box_line_len(box) % 2 = 0
    /\ box.titles.bottom.pos = "Right"
    /\ Title_width(box.titles.bottom) = 1
    /\ \E i \in 1..Len(box.lines) : ansi_width(box.lines[i]) < box_line_len(box) - 2

(***************************************************************************)
(* C17: on a border row the border style is applied twice when it is not   *)
(* plain and the title is not empty (to the segment after the title: right *)
(* pad and right corner, then to the whole row: left corner, left pad,     *)
(* title, painted right segment), once to the whole row when it is not     *)
(* plain and the title is empty, and never when it is plain.               *)
(***************************************************************************)
C17_Row(b, title, parts, row) ==
    LET ansi == b.border_style.ansi
        times == IF is_plain(ansi) THEN 0
                 ELSE IF Title_is_empty(title) THEN 1 ELSE 2
        \* the escape sequences the title text brings itself
        own(c) == Count(title.text.str, c)
    IN  /\ row = StyledBorderRow(ansi, parts)
        /\ Count(row, "ESC[1m") = times + own("ESC[1m")
        /\ Count(row, "ESC[0m") = times + own("ESC[0m")
        /\ times = 2 =>
              /\ row = AnsiPrefix(ansi) \o parts.lc \o parts.left \o parts.text
                        \o AnsiPrefix(ansi) \o parts.right \o parts.rc
                        \o AnsiSuffix(ansi) \o AnsiSuffix(ansi)
        /\ times = 1 =>
              row = AnsiPrefix(ansi) \o parts.lc \o parts.left \o parts.rc
                    \o AnsiSuffix(ansi)

C17_StyleApplications ==
    pc = "into_string" =>
        LET rows == Rows(out)
        IN  /\ C17_Row(box, box.titles.top, TopParts(box), rows[1])
            /\ C17_Row(box, box.titles.bottom, BottomParts(box), rows[Len(rows)])

\* a bold border with a title in the bottom row and none in the top row
C17_Witness ==
    /\ pc = "into_string"
    /\ ~is_plain(box.border_style.ansi)
    /\ Title_is_empty(box.titles.top)
    /\ Title_width(box.titles.bottom) >= 1
    /\ box_line_len(box) > Title_width(box.titles.bottom) + 2

(***************************************************************************)
(* C18: a box of n lines renders as n + 2 rows: the top border, then for   *)
(* i = 1..n in the order of the lines the row styled side glyph, padding   *)
(* string, lines[i] as given, line_len - width(lines[i]) - 2 -             *)
(* 2*padding.count spaces, padding string, the same side glyph string,     *)
(* then the bottom border; the padding string is padding.count times the   *)
(* padding char.                                                           *)
(***************************************************************************)
C18_RowsInOrder ==
    pc = "into_string" =>
        LET rows == Rows(out)
            n == Len(box.lines)
            L == C3_LineLen(box)
            side == paint(box.border_style.ansi, get_char(box.border_style.shape, "Side"))
            padding == Repeat(<<box.padding.chr>>, box.padding.count)
            fill(i) == L - ansi_width(box.lines[i]) - 2 - 2 * box.padding.count
        IN  /\ Len(rows) = n + 2
            /\ Len(padding) = box.padding.count
            /\ rows[1] = StyledBorderRow(box.border_style.ansi, TopParts(box))
            /\ \A i \in 1..n :
                  /\ fill(i) >= 0
                  /\ rows[i + 1] = side \o padding \o box.lines[i]
                                    \o Repeat(<<" ">>, fill(i)) \o padding \o side
            /\ rows[n + 2] = StyledBorderRow(box.border_style.ansi, BottomParts(box))

\* two lines of different widths, the wider first, in a padded box with a
\* styled border
C18_Witness ==
    /\ pc = "into_string"
    /\ Len(box.lines) = 2
    /\ ansi_width(box.lines[1]) > ansi_width(box.lines[2])
    /\ box.padding.count >= 1
    /\ ~is_plain(box.border_style.ansi)

(***************************************************************************)
(* C19: the width that sizes the box is the largest visible width among    *)
(* the lines, the top title and the bottom title, compared by width only   *)
(* whatever the texts, and 0 for a box with no lines and empty titles.     *)
(***************************************************************************)
C19_LongestWidth ==
    pc = "into_string" =>
        LET rows == Rows(out)
            W == SetMax(AllWidths(box))
            L == Max(3, W + 2 + 2 * box.padding.count)
        IN  /\ longest_line(box).width = W
            /\ box_line_len(box) = L
            /\ \A i \in 1..Len(box.lines) : ansi_width(rows[i + 1]) = L
            /\ (box.lines = <<>> /\ NoTitles(box)) => longest_line(box).width = 0

\* the widest element is the bottom title, while the top title has the
\* longer text and no visible width
C19_Witness ==
    /\ pc = "into_string"
    /\ ZeroWidthTitle(box.titles.top)
    /\ Title_width(box.titles.bottom) = 1
    /\ Len(box.titles.top.text.str) > Len(box.titles.bottom.text.str)
    /\ Len(box.lines) >= 1
    /\ SetMax(LineWidths(box)) < 1

(***************************************************************************)
(* C20: a title of visible width w >= 1 that fills the interior            *)
(* (total_len - 2 = w) has left_pad_len = right_pad_len = 0 at every       *)
(* position, and its border row is left corner, title text, right corner;  *)
(* through into_string this happens exactly when the title is a widest     *)
(* element of the box and padding.count is 0.                              *)
(***************************************************************************)
C20_Fills(b, title) ==
    Title_width(title) >= 1 /\ box_line_len(b) - 2 = Title_width(title)

C20_Row(b, title, row, left_corner, right_corner) ==
    LET L == box_line_len(b)
        shape == b.border_style.shape
        w == Title_width(title)
    IN  /\ w >= 1 =>
              (L - 2 = w <=> (w = SetMax(AllWidths(b)) /\ b.padding.count = 0))
        /\ C20_Fills(b, title) =>
              /\ left_pad_len(title, L) = 0
              /\ right_pad_len(title, L) = 0
              /\ Count(row, get_char(shape, "Edge")[1]) = 0
              /\ Visible(row) = get_char(shape, left_corner)
                                 \o Visible(title.text.str)
                                 \o get_char(shape, right_corner)
              /\ row = StyledBorderRow(b.border_style.ansi,
                          [lc |-> get_char(shape, left_corner), left |-> <<>>,
                           text |-> title.text.str, right |-> <<>>,
                           rc |-> get_char(shape, right_corner)])

C20_FullWidthTitle ==
    pc = "into_string" =>
        LET rows == Rows(out)
        IN  /\ C20_Row(box, box.titles.top, rows[1], "TopLeft", "TopRight")
            /\ C20_Row(box, box.titles.bottom, rows[Len(rows)], "BotLeft", "BotRight")

\* the three positions fill alike: a Right title of two columns over
\* narrower lines, and a Centered title of the same width below
C20_Witness ==
    /\ pc = "into_string"
    /\ C20_Fills(box, box.titles.top)
    /\ box.titles.top.pos = "Right"
    /\ Title_width(box.titles.top) = 2
    /\ C20_Fills(box, box.titles.bottom)
    /\ box.titles.bottom.pos = "Centered"
    /\ Len(box.lines) >= 1
    /\ SetMax(LineWidths(box)) < 2

(***************************************************************************)
(* C21: appending never narrows the box.  After each append every row is   *)
(* at least as wide as before, and as wide as max(width before,            *)
(* width(new line) + 2 + 2*padding.count); the rows of the lines that were *)
(* there change only by gaining fill spaces.                               *)
(***************************************************************************)
\* an append (or append_with) has just been made
C21_Case == pc = "lines" /\ hist.calls # <<>>

\* the box before that append
C21_Before == [box EXCEPT !.lines = SubSeq(box.lines, 1, Len(box.lines) - 1)]

\* the border rows the rule is asked of: all of them, or all but those
\* whose title is not empty and has no visible width
C21_Rule(all_rows) ==
    LET before_rows == Rows(into_string(C21_Before))
        after_rows == Rows(into_string(box))
        n == Len(C21_Before.lines)
        new_line == box.lines[n + 1]
        grown == ansi_width(new_line) + 2 + 2 * box.padding.count
        widens(b, a) == /\ ansi_width(a) >= ansi_width(b)
                        /\ ansi_width(a) = Max(ansi_width(b), grown)
        side == get_edge_string(box.border_style)
        padding == Repeat(<<box.padding.chr>>, box.padding.count)
        \* a row of a line: side, padding, text, k spaces, padding, side
        row(i, k) == side \o padding \o box.lines[i] \o Repeat(<<" ">>, k)
                     \o padding \o side
    IN  /\ Len(before_rows) = n + 2 /\ Len(after_rows) = n + 3
        /\ (all_rows \/ ~ZeroWidthTitle(box.titles.top)) =>
              widens(before_rows[1], after_rows[1])
        /\ (all_rows \/ ~ZeroWidthTitle(box.titles.bottom)) =>
              widens(before_rows[n + 2], after_rows[n + 3])
        /\ \A i \in 1..n :
              /\ widens(before_rows[i + 1], after_rows[i + 1])
              /\ \E k \in 0..Len(before_rows[i + 1]) :
                    /\ before_rows[i + 1] = row(i, k)
                    /\ after_rows[i + 1] =
                          row(i, k + ansi_width(after_rows[i + 1])
                                   - ansi_width(before_rows[i + 1]))
        \* the row of the new line is as wide as the box has become
        /\ ansi_width(after_rows[n + 2]) = Max(C3_LineLen(C21_Before), grown)

C21_AppendWidens == C21_Case => C21_Rule(TRUE)

\* what holds of the code: the same but for the border rows of C1
C21_AppendWidensOtherRows == C21_Case => C21_Rule(FALSE)

====
